---- MODULE Spec2Model ----
(***************************************************************************)
(* Per-flow network impairment (tc programs delay_jitter and loss_bps with *)
(* throttle_flow) and layer-2 forwarding (XDP program xdp_l2_fwd_prog).    *)
(*                                                                         *)
(* Times are nanoseconds, exactly as in the programs.  TLC evaluates       *)
(* integers below 2^31, so the inputs are bounded (MaxNow, MaxTime and the *)
(* sets Lens, HandleSet) such that every value the programs compute stays  *)
(* below MaxTime; within these bounds no 64-bit value wraps.  The 32-bit   *)
(* products of inject_delay_jitter wrap, and are computed modulo 2^32.     *)
(*                                                                         *)
(* Spec      packets of three configured flows at the two tc hooks         *)
(* SpecXdp   frames at the XDP hook, the control plane writing the tables  *)
(* SpecFn    one flow whose entry is drawn from HandleSet                  *)
(* SpecTrunc packets cut short of an Ethernet header at all three hooks    *)
(* SpecSmp   loss_bps on two CPUs at once, throttle_flow in two steps      *)
(* SpecLive  one flow whose packets never stop arriving, with fairness     *)
(***************************************************************************)
EXTENDS Integers, Sequences, FiniteSets, TLC

VARIABLES
    now,             \* bpf_ktime_get_ns(): the monotonic clock
    MAC_HANDLE_EMU,  \* FlowKeyTable: flow_key -> handle_emu (read-only for the programs)
    flow_map,        \* PacingState: flow_key -> last_tstamp (written by throttle_flow only)
    run,             \* history: the invocation of a tc program made by the last step, if any
    lastDep,         \* history: per flow, departure time of the last packet throttle_flow passed at rate > 0
    lastOut,         \* history (SpecFn): per flow, the last packet loss_bps passed, as it left the hook
    npkts,           \* number of packets handled so far (bounded by MaxPackets)
    cpu,             \* SpecSmp: per CPU, the position and the locals of loss_bps running on it
    mac_table,       \* ForwardingTable: mac_key -> egress ifindex (pinned)
    tx_ports,        \* EgressPortSet: the ifindex keys present in the devmap (pinned)
    xdp              \* history: the invocation of xdp_l2_fwd_prog made by the last step, if any

vars == <<now, MAC_HANDLE_EMU, flow_map, run, lastDep, lastOut, npkts, cpu, mac_table, tx_ports, xdp>>
tcVars == <<now, MAC_HANDLE_EMU, flow_map, run, lastDep, lastOut, npkts, cpu>>
xdpVars == <<mac_table, tx_ports, xdp>>

(***************************************************************************)
(* Program constants                                                       *)
(***************************************************************************)
TIME_HORIZON_NS == 2000 * 1000 * 1000
NS_PER_SEC == 1000000000
NS_PER_0_0_1_MS == 10000
PKT_LOSS_SCOPE == 10000

(***************************************************************************)
(* Bounds of the model                                                     *)
(***************************************************************************)
StartNow == 1000000        \* clock reading when the first packet arrives
ClockStep == 12000000      \* the clock advances in steps of this many ns
MaxNow == 14000000         \* the clock stops advancing here
MaxTime == 2100000000      \* every computed timestamp stays at or below this
MaxPackets == 3            \* packets handled by the tc programs in one behaviour
FlowMapEntries == 2        \* capacity of flow_map in the model (max_entries is 65535)
MaxUndef == 1              \* results 0..MaxUndef stand for the quotient of a division by zero
PastGap == 400000          \* an incoming tstamp in the past is now - PastGap
FutureGap == 3000000       \* an incoming tstamp in the future is now + FutureGap

(***************************************************************************)
(* Packets, keys and table values                                          *)
(***************************************************************************)
MacA == <<170, 187, 204, 221, 238, 255>>   \* AA:BB:CC:DD:EE:FF
MacA2 == <<170, 187, 204, 221, 238, 254>>  \* differs from MacA in one byte
MacB == <<2, 0, 0, 0, 0, 1>>
MacC == <<2, 0, 0, 0, 0, 2>>
MacBcast == <<255, 255, 255, 255, 255, 255>>
MacMcast == <<1, 0, 94, 0, 0, 1>>

\* struct flow_key
flow_key(ifindex, src_mac) == [ifindex |-> ifindex, src_mac |-> src_mac]

\* struct handle_emu
handle_emu(rate, delay, loss, jitter) ==
    [throttle_rate_bps |-> rate, delay |-> delay, loss_rate |-> loss, jitter |-> jitter]

\* The table the control plane has written before traffic arrives: three flows,
\* one paced at 1 Mbit/s with a delay, one paced at 12 kbit/s with jitter, one
\* with loss and a throttle rate of 0.
EmuTable ==
    (flow_key(3, MacA) :> handle_emu(1000000, 100, 0, 0))
    @@ (flow_key(3, MacB) :> handle_emu(12000, 0, 0, 50))
    @@ (flow_key(3, MacC) :> handle_emu(0, 100, 5000, 0))

\* keys of packets: the configured flows, and two keys that differ from a
\* configured key in the interface or in one address byte
PacketKeys == DOMAIN EmuTable \cup {flow_key(4, MacA), flow_key(3, MacA2)}

Lens == {64, 1500}
Rands == {0, 7777, 1000000}

\* slot 0 of the program array progs, as the control plane may have left it:
\* empty, or holding the tc program delay_jitter
ProgSlots == {<<>>, <<"delay_jitter">>}

\* The values bpf_get_prandom_u32() may return to a run.  Where the entry of
\* the packet's flow rules the call out (loss_rate = 0, jitter = 0), the draw
\* is not enumerated.
LossDraws(skb, emu, rands) ==
    LET key == flow_key(skb.ifindex, skb.h_source)
    IN IF key \in DOMAIN emu /\ emu[key].loss_rate = 0 THEN {0} ELSE rands

JitterDraws(skb, emu, rands) ==
    LET key == flow_key(skb.ifindex, skb.h_source)
    IN IF key \in DOMAIN emu /\ emu[key].jitter = 0 THEN {0} ELSE rands

\* the quotients a division by *throttle_rate_bps = 0 may yield

UndefDraws(skb, emu) ==
    LET key == flow_key(skb.ifindex, skb.h_source)
    IN IF key \in DOMAIN emu /\ emu[key].throttle_rate_bps = 0 THEN 0..MaxUndef ELSE {0}

TstampsAt(t) == {0, t - PastGap, t + FutureGap}

\* packets with a complete Ethernet header, and packets cut short of one
SkbsOf(keys, t) ==
    { [ifindex |-> k.ifindex, h_source |-> k.src_mac, len |-> l, tstamp |-> ts, truncated |-> FALSE] :
        k \in keys, l \in Lens, ts \in TstampsAt(t) }
    \cup
    { [ifindex |-> 3, h_source |-> MacA, len |-> 10, tstamp |-> ts, truncated |-> TRUE] :
        ts \in {0, t + FutureGap} }

Skbs(t) == SkbsOf(PacketKeys, t)

(***************************************************************************)
(* Kernel helpers                                                          *)
(***************************************************************************)
\* MUTANT of bpf_map_lookup_elem: keys are compared on the address alone, the
\* interface index is ignored
bpf_map_lookup_elem_mac_only(map, key) ==
    LET hits == {k \in DOMAIN map : k.src_mac = key.src_mac}
    IN IF hits # {} THEN <<map[CHOOSE k \in hits : TRUE]>> ELSE <<>>

\* bpf_map_lookup_elem on a hash map: <<value>> when the key is present, <<>> otherwise
bpf_map_lookup_elem(map, key) ==
    IF key \in DOMAIN map THEN <<map[key]>> ELSE <<>>

\* bpf_map_update_elem(.., BPF_ANY) on a hash map of max_entries entries:
\* a new key cannot be inserted into a full map
bpf_map_update_elem(map, key, value, max_entries) ==
    IF key \in DOMAIN map \/ Cardinality(DOMAIN map) < max_entries
    THEN [err |-> FALSE,
          map |-> [k \in DOMAIN map \cup {key} |-> IF k = key THEN value ELSE map[k]]]
    ELSE [err |-> TRUE, map |-> map]

\* parse_ethhdr of header/helpers.h: TC_ACT_SHOT when the Ethernet header is incomplete
parse_ethhdr(skb) == IF skb.truncated THEN "TC_ACT_SHOT" ELSE "TC_ACT_OK"

\* a * b in uint32_t arithmetic (modulo 2^32), computed in 16-bit limbs; b < 2^15
mul_u32(a, b) ==
    LET lo == (a % (2^16)) * b
        hi == (((a \div (2^16)) * b) + (lo \div (2^16))) % (2^16)
    IN (hi * (2^16)) + (lo % (2^16))

(***************************************************************************)
(* tc program delay_jitter                                                 *)
(***************************************************************************)
\* tstamp: the value stored to skb->tstamp; delay_ns, jitter_ns: the locals
inject_delay_jitter(tstamp, nowv, delay, jitter, rand) ==
    LET delay_ns == mul_u32(delay, NS_PER_0_0_1_MS)
        jitter_ns == mul_u32(jitter, NS_PER_0_0_1_MS)
        random_jitter == IF jitter_ns > 0
                         THEN (rand % (2 * jitter_ns + 1)) - jitter_ns
                         ELSE 0
    IN [tstamp |-> IF tstamp = 0
                   THEN nowv + delay_ns + random_jitter
                   ELSE tstamp + delay_ns + random_jitter,
        delay_ns |-> delay_ns, jitter_ns |-> jitter_ns]

delay_jitter(skb, nowv, emu, rand) ==
    IF parse_ethhdr(skb) = "TC_ACT_SHOT"
    THEN [ret |-> "TC_ACT_SHOT", tstamp |-> skb.tstamp, found |-> FALSE,
          delay_ns |-> 0, jitter_ns |-> 0]
    ELSE LET key == flow_key(skb.ifindex, skb.h_source)
             val_struct == bpf_map_lookup_elem(emu, key)
         IN IF Len(val_struct) = 0
            THEN [ret |-> "TC_ACT_OK", tstamp |-> skb.tstamp, found |-> FALSE,
                  delay_ns |-> 0, jitter_ns |-> 0]
            ELSE LET inj == inject_delay_jitter(skb.tstamp, nowv, val_struct[1].delay,
                                                val_struct[1].jitter, rand)
                 IN [ret |-> "TC_ACT_OK", tstamp |-> inj.tstamp, found |-> TRUE,
                     delay_ns |-> inj.delay_ns, jitter_ns |-> inj.jitter_ns]

(***************************************************************************)
(* tc program loss_bps with throttle_flow                                  *)
(***************************************************************************)
\* MUTANT of throttle_delay_ns: the length is taken in bytes, not bits
throttle_delay_ns_bytes(len, rate, undef) ==
    IF rate = 0
    THEN undef
    ELSE (len * (NS_PER_SEC \div rate)) + ((len * (NS_PER_SEC % rate)) \div rate)

\* skb->len * 8 * NS_PER_SEC / *throttle_rate_bps, truncated.  The quotient is
\* computed as n*q + (n*r)/rate with NS_PER_SEC = q*rate + r, which is the same
\* number and keeps the intermediate values small.  A rate of 0 divides by
\* zero: the result is any of 0..MaxUndef, chosen by undef.
throttle_delay_ns(len, rate, undef) ==
    IF rate = 0
    THEN undef
    ELSE LET n == len * 8
             q == NS_PER_SEC \div rate
             r == NS_PER_SEC % rate
         IN (n * q) + ((n * r) \div rate)

\* MUTANT of horizon_exceeded: a gap of exactly the horizon is let through
horizon_exceeded_gt(next_tstamp, nowv) == next_tstamp - nowv > TIME_HORIZON_NS

\* next_tstamp - now >= TIME_HORIZON_NS
horizon_exceeded(next_tstamp, nowv) == next_tstamp - nowv >= TIME_HORIZON_NS

\* MUTANT of throttle_flow: without backlog the entry keeps the idle credit
\* (last_tstamp + delay_ns is stored, not tstamp + delay_ns)
throttle_flow_keep_credit(skb_tstamp, len, key, rate, nowv, fmap, undef) ==
    LET last_tstamp == bpf_map_lookup_elem(fmap, key)
        delay_ns == throttle_delay_ns(len, rate, undef)
        tstamp == IF skb_tstamp < nowv THEN nowv ELSE skb_tstamp
        next_tstamp == IF Len(last_tstamp) > 0
                       THEN last_tstamp[1] + delay_ns
                       ELSE tstamp + delay_ns
    IN IF next_tstamp <= tstamp
       THEN LET upd == bpf_map_update_elem(fmap, key, next_tstamp, FlowMapEntries)
            IN [ret |-> "tail_call", tstamp |-> skb_tstamp, flow_map |-> upd.map,
                path |-> "rebase", write_failed |-> upd.err, delay_ns |-> delay_ns]
       ELSE IF horizon_exceeded(next_tstamp, nowv)
       THEN [ret |-> "TC_ACT_SHOT", tstamp |-> skb_tstamp, flow_map |-> fmap,
             path |-> "horizon", write_failed |-> FALSE, delay_ns |-> delay_ns]
       ELSE LET upd == bpf_map_update_elem(fmap, key, next_tstamp, FlowMapEntries)
            IN IF upd.err
               THEN [ret |-> "TC_ACT_SHOT", tstamp |-> skb_tstamp, flow_map |-> fmap,
                     path |-> "update_failed", write_failed |-> TRUE, delay_ns |-> delay_ns]
               ELSE [ret |-> "tail_call", tstamp |-> next_tstamp, flow_map |-> upd.map,
                     path |-> "paced", write_failed |-> FALSE, delay_ns |-> delay_ns]

\* throttle_flow up to the computation of next_tstamp (lines 114-133): the
\* locals, computed from the map and the clock as they are when it runs
throttle_flow_read(skb_tstamp, len, key, rate, nowv, fmap, undef) ==
    LET last_tstamp == bpf_map_lookup_elem(fmap, key)
        delay_ns == throttle_delay_ns(len, rate, undef)
        tstamp == IF skb_tstamp < nowv THEN nowv ELSE skb_tstamp
        next_tstamp == IF Len(last_tstamp) > 0
                       THEN last_tstamp[1] + delay_ns
                       ELSE tstamp + delay_ns
    IN [now |-> nowv, delay_ns |-> delay_ns, tstamp |-> tstamp, next_tstamp |-> next_tstamp]

\* throttle_flow from the test of next_tstamp on (lines 136-159): the map is
\* written as it is when this part runs.  path: which return was taken
throttle_flow_write(l, skb_tstamp, key, fmap) ==
    IF l.next_tstamp <= l.tstamp
    THEN LET upd == bpf_map_update_elem(fmap, key, l.tstamp + l.delay_ns, FlowMapEntries)
         IN [ret |-> "tail_call", tstamp |-> skb_tstamp, flow_map |-> upd.map,
             path |-> "rebase", write_failed |-> upd.err, delay_ns |-> l.delay_ns]
    ELSE IF horizon_exceeded(l.next_tstamp, l.now)
    THEN [ret |-> "TC_ACT_SHOT", tstamp |-> skb_tstamp, flow_map |-> fmap,
          path |-> "horizon", write_failed |-> FALSE, delay_ns |-> l.delay_ns]
    ELSE LET upd == bpf_map_update_elem(fmap, key, l.next_tstamp, FlowMapEntries)
         IN IF upd.err
            THEN [ret |-> "TC_ACT_SHOT", tstamp |-> skb_tstamp, flow_map |-> fmap,
                  path |-> "update_failed", write_failed |-> TRUE, delay_ns |-> l.delay_ns]
            ELSE [ret |-> "tail_call", tstamp |-> l.next_tstamp, flow_map |-> upd.map,
                  path |-> "paced", write_failed |-> FALSE, delay_ns |-> l.delay_ns]

\* throttle_flow run on one CPU without another CPU in between
throttle_flow(skb_tstamp, len, key, rate, nowv, fmap, undef) ==
    throttle_flow_write(throttle_flow_read(skb_tstamp, len, key, rate, nowv, fmap, undef),
                        skb_tstamp, key, fmap)

\* MUTANT of loss_bps: a draw equal to the loss rate drops the packet as well
loss_bps_le(skb, nowv, emu, fmap, rand, undef) ==
    LET skip(r, p) == [ret |-> r, tstamp |-> skb.tstamp, flow_map |-> fmap, path |-> p,
                       write_failed |-> FALSE, delay_ns |-> 0]
    IN IF parse_ethhdr(skb) = "TC_ACT_SHOT"
       THEN skip("TC_ACT_SHOT", "truncated")
       ELSE LET key == flow_key(skb.ifindex, skb.h_source)
                val_struct == bpf_map_lookup_elem(emu, key)
            IN IF Len(val_struct) = 0
               THEN skip("TC_ACT_OK", "no_handle")
               ELSE IF val_struct[1].loss_rate > 0
                       /\ (rand % PKT_LOSS_SCOPE) <= val_struct[1].loss_rate
               THEN skip("TC_ACT_SHOT", "loss")
               ELSE throttle_flow(skb.tstamp, skb.len, key,
                                  val_struct[1].throttle_rate_bps, nowv, fmap, undef)

\* path "none": throttle_flow was not reached
loss_bps(skb, nowv, emu, fmap, rand, undef) ==
    LET skip(r, p) == [ret |-> r, tstamp |-> skb.tstamp, flow_map |-> fmap, path |-> p,
                       write_failed |-> FALSE, delay_ns |-> 0]
    IN IF parse_ethhdr(skb) = "TC_ACT_SHOT"
       THEN skip("TC_ACT_SHOT", "truncated")
       ELSE LET key == flow_key(skb.ifindex, skb.h_source)
                val_struct == bpf_map_lookup_elem(emu, key)
            IN IF Len(val_struct) = 0
               THEN skip("TC_ACT_OK", "no_handle")
               ELSE IF val_struct[1].loss_rate > 0
                       /\ (rand % PKT_LOSS_SCOPE) < val_struct[1].loss_rate
               THEN skip("TC_ACT_SHOT", "loss")
               ELSE throttle_flow(skb.tstamp, skb.len, key,
                                  val_struct[1].throttle_rate_bps, nowv, fmap, undef)

\* every sum throttle_flow forms stays at or below MaxTime
InRange(skb, nowv, emu, fmap, undef) ==
    LET key == flow_key(skb.ifindex, skb.h_source)
    IN key \in DOMAIN emu =>
          LET d == throttle_delay_ns(skb.len, emu[key].throttle_rate_bps, undef)
              base == IF skb.tstamp < nowv THEN nowv ELSE skb.tstamp
          IN /\ base <= MaxTime - d
             /\ key \in DOMAIN fmap => fmap[key] <= MaxTime - d

(***************************************************************************)
(* XDP program xdp_l2_fwd_prog                                             *)
(***************************************************************************)
\* bpf_redirect_map on the devmap tx_ports.  With BPF_F_BROADCAST the frame goes
\* to every device of the map, but for the ingress device under
\* BPF_F_EXCLUDE_INGRESS; otherwise the key is looked up, and a missing key makes
\* the helper return the low bits of flags, here 0 = XDP_ABORTED.
bpf_redirect_map(ports, key, flags, ingress) ==
    IF "BPF_F_BROADCAST" \in flags
    THEN [action |-> "XDP_REDIRECT",
          targets |-> IF "BPF_F_EXCLUDE_INGRESS" \in flags THEN ports \ {ingress} ELSE ports]
    ELSE IF key \in ports
    THEN [action |-> "XDP_REDIRECT", targets |-> {key}]
    ELSE [action |-> "XDP_ABORTED", targets |-> {}]

\* MUTANT of xdp_l2_fwd_prog: a known unicast frame is redirected under the
\* ingress interface as key
xdp_l2_fwd_prog_ingress_key(ctx, mtable, ports) ==
    IF ctx.truncated
    THEN [action |-> "XDP_DROP", targets |-> {}]
    ELSE IF ctx.h_dest[1] % 2 = 1
    THEN bpf_redirect_map(ports, 0, {"BPF_F_BROADCAST", "BPF_F_EXCLUDE_INGRESS"},
                          ctx.ingress_ifindex)
    ELSE LET dest_ifindex == bpf_map_lookup_elem(mtable, ctx.h_dest)
         IN IF Len(dest_ifindex) > 0
            THEN bpf_redirect_map(ports, ctx.ingress_ifindex, {}, ctx.ingress_ifindex)
            ELSE [action |-> "XDP_PASS", targets |-> {}]

\* MUTANT of xdp_l2_fwd_prog: the flood does not exclude the ingress interface
xdp_l2_fwd_prog_flood_all(ctx, mtable, ports) ==
    IF ctx.truncated
    THEN [action |-> "XDP_DROP", targets |-> {}]
    ELSE IF ctx.h_dest[1] % 2 = 1
    THEN bpf_redirect_map(ports, 0, {"BPF_F_BROADCAST"}, ctx.ingress_ifindex)
    ELSE LET dest_ifindex == bpf_map_lookup_elem(mtable, ctx.h_dest)
         IN IF Len(dest_ifindex) > 0
            THEN bpf_redirect_map(ports, dest_ifindex[1], {}, ctx.ingress_ifindex)
            ELSE [action |-> "XDP_PASS", targets |-> {}]

\* MUTANT of xdp_l2_fwd_prog: an unknown unicast frame is dropped
xdp_l2_fwd_prog_drop_unknown(ctx, mtable, ports) ==
    IF ctx.truncated
    THEN [action |-> "XDP_DROP", targets |-> {}]
    ELSE IF ctx.h_dest[1] % 2 = 1
    THEN bpf_redirect_map(ports, 0, {"BPF_F_BROADCAST", "BPF_F_EXCLUDE_INGRESS"},
                          ctx.ingress_ifindex)
    ELSE LET dest_ifindex == bpf_map_lookup_elem(mtable, ctx.h_dest)
         IN IF Len(dest_ifindex) > 0
            THEN bpf_redirect_map(ports, dest_ifindex[1], {}, ctx.ingress_ifindex)
            ELSE [action |-> "XDP_DROP", targets |-> {}]

\* MUTANT of xdp_l2_fwd_prog: a known unicast frame whose egress is its own
\* ingress interface is dropped
xdp_l2_fwd_prog_drop_hairpin(ctx, mtable, ports) ==
    IF ctx.truncated
    THEN [action |-> "XDP_DROP", targets |-> {}]
    ELSE IF ctx.h_dest[1] % 2 = 1
    THEN bpf_redirect_map(ports, 0, {"BPF_F_BROADCAST", "BPF_F_EXCLUDE_INGRESS"},
                          ctx.ingress_ifindex)
    ELSE LET dest_ifindex == bpf_map_lookup_elem(mtable, ctx.h_dest)
         IN IF Len(dest_ifindex) > 0
            THEN IF dest_ifindex[1] = ctx.ingress_ifindex
                 THEN [action |-> "XDP_DROP", targets |-> {}]
                 ELSE bpf_redirect_map(ports, dest_ifindex[1], {}, ctx.ingress_ifindex)
            ELSE [action |-> "XDP_PASS", targets |-> {}]

\* MUTANT of xdp_l2_fwd_prog: the length of the frame is not checked
xdp_l2_fwd_prog_no_length_check(ctx, mtable, ports) ==
    IF ctx.h_dest[1] % 2 = 1
    THEN bpf_redirect_map(ports, 0, {"BPF_F_BROADCAST", "BPF_F_EXCLUDE_INGRESS"},
                          ctx.ingress_ifindex)
    ELSE LET dest_ifindex == bpf_map_lookup_elem(mtable, ctx.h_dest)
         IN IF Len(dest_ifindex) > 0
            THEN bpf_redirect_map(ports, dest_ifindex[1], {}, ctx.ingress_ifindex)
            ELSE [action |-> "XDP_PASS", targets |-> {}]

xdp_l2_fwd_prog(ctx, mtable, ports) ==
    IF ctx.truncated
    THEN [action |-> "XDP_DROP", targets |-> {}]
    ELSE IF ctx.h_dest[1] % 2 = 1
    THEN bpf_redirect_map(ports, 0, {"BPF_F_BROADCAST", "BPF_F_EXCLUDE_INGRESS"},
                          ctx.ingress_ifindex)
    ELSE LET dest_ifindex == bpf_map_lookup_elem(mtable, ctx.h_dest)
         IN IF Len(dest_ifindex) > 0
            THEN bpf_redirect_map(ports, dest_ifindex[1], {}, ctx.ingress_ifindex)
            ELSE [action |-> "XDP_PASS", targets |-> {}]

Ifindexes == {3, 5, 7}
TableMacs == {MacB, MacBcast}
XdpCtxs ==
    { [ingress_ifindex |-> i, h_dest |-> m, truncated |-> FALSE] :
        i \in {3, 5}, m \in {MacB, MacC, MacBcast, MacMcast} }
    \cup {[ingress_ifindex |-> 3, h_dest |-> MacB, truncated |-> TRUE]}

(***************************************************************************)
(* State machine                                                           *)
(***************************************************************************)
NoRun ==
    [hook |-> "none", skb |-> <<>>, now |-> 0, handle |-> <<>>, flow_map_before |-> <<>>,
     path |-> "none", ret |-> "none", tstamp_throttle |-> 0, tstamp |-> 0,
     write_failed |-> FALSE, delay_ns |-> 0, prev_dep |-> <<>>, trace |-> <<>>,
     slot0 |-> <<>>, rand |-> 0, pass |-> 0, tstamp_once |-> 0,
     dj_delay_ns |-> 0, dj_jitter_ns |-> 0, prev_out |-> <<>>]

NoXdp == [ran |-> FALSE, ctx |-> <<>>, action |-> "none", targets |-> {}]

CPUs == {1, 2}

IdleCpu ==
    [pc |-> "idle", skb |-> <<>>, locals |-> <<>>, base |-> <<>>, ret |-> "none",
     path |-> "none", tstamp |-> 0]

NoCpu == [c \in CPUs |-> IdleCpu]

Init ==
    /\ now = StartNow
    /\ MAC_HANDLE_EMU = EmuTable
    /\ flow_map = <<>>
    /\ run = NoRun
    /\ lastDep = <<>>
    /\ lastOut = <<>>
    /\ npkts = 0
    /\ cpu = NoCpu
    /\ mac_table = <<>>
    /\ tx_ports = {}
    /\ xdp = NoXdp

\* time passes, up to limit
TickTo(limit) ==
    /\ run = NoRun
    /\ now + ClockStep <= limit
    /\ now' = now + ClockStep
    /\ UNCHANGED <<MAC_HANDLE_EMU, flow_map, run, lastDep, lastOut, npkts, cpu>>
    /\ UNCHANGED xdpVars

Tick == TickTo(MaxNow)

\* the entry of the packet's flow, read off the table
HandleOf(skb, emu) ==
    LET key == flow_key(skb.ifindex, skb.h_source)
    IN IF key \in DOMAIN emu THEN <<emu[key]>> ELSE <<>>

\* a packet of skbs reaches a hook that delay_jitter is attached to
DelayJitterStep(skbs, rands) ==
    /\ run = NoRun
    /\ npkts < MaxPackets
    /\ \E skb \in skbs : \E rand \in JitterDraws(skb, MAC_HANDLE_EMU, rands) :
        LET r == delay_jitter(skb, now, MAC_HANDLE_EMU, rand)
        IN /\ npkts' = npkts + 1
           /\ run' = [NoRun EXCEPT !.hook = "delay_jitter", !.skb = skb, !.now = now,
                                   !.handle = HandleOf(skb, MAC_HANDLE_EMU),
                                   !.flow_map_before = flow_map,
                                   !.ret = r.ret, !.tstamp = r.tstamp,
                                   !.tstamp_throttle = skb.tstamp,
                                   !.trace = <<"DelayJitter">>,
                                   !.pass = 1,
                                   !.dj_delay_ns = r.delay_ns,
                                   !.dj_jitter_ns = r.jitter_ns]
           /\ UNCHANGED <<now, MAC_HANDLE_EMU, flow_map, lastDep, lastOut, cpu>>
           /\ UNCHANGED xdpVars

RunDelayJitter == DelayJitterStep(Skbs(now), Rands)

\* the timestamp a packet leaves throttle_flow with, read as a departure time
Departure(tstamp, nowv) == IF tstamp < nowv THEN nowv ELSE tstamp

TailSlots(r) == IF r.ret = "tail_call" THEN ProgSlots ELSE {<<>>}

\* a packet of skbs reaches a hook that loss_bps is attached to;
\* bpf_tail_call(skb, &progs, 0) jumps to the program in slot 0, or falls
\* through to return TC_ACT_OK.  With track, lastOut keeps the packet as it
\* left; with counted, the packet counts towards MaxPackets.
LossBpsStep(skbs, rands, track, counted) ==
    /\ run = NoRun
    /\ counted => npkts < MaxPackets
    /\ \E skb \in skbs :
      \E rand \in LossDraws(skb, MAC_HANDLE_EMU, rands),
         rand2 \in JitterDraws(skb, MAC_HANDLE_EMU, rands),
         undef \in UndefDraws(skb, MAC_HANDLE_EMU) :
        LET key == flow_key(skb.ifindex, skb.h_source)
            r == loss_bps(skb, now, MAC_HANDLE_EMU, flow_map, rand, undef)
            throttled == r.path \in {"rebase", "horizon", "update_failed", "paced"}
            rated == throttled /\ MAC_HANDLE_EMU[key].throttle_rate_bps > 0
        IN
        /\ InRange(skb, now, MAC_HANDLE_EMU, flow_map, undef)
        /\ \E slot0 \in TailSlots(r) :
           LET tail == r.ret = "tail_call" /\ Len(slot0) > 0
               t == delay_jitter([skb EXCEPT !.tstamp = r.tstamp], now, MAC_HANDLE_EMU, rand2)
               out == IF tail THEN t.tstamp ELSE r.tstamp
           IN
           /\ npkts' = IF counted THEN npkts + 1 ELSE npkts
           /\ flow_map' = r.flow_map
           /\ run' = [NoRun EXCEPT !.hook = "loss_bps", !.skb = skb, !.now = now,
                                   !.handle = HandleOf(skb, MAC_HANDLE_EMU),
                                   !.flow_map_before = flow_map,
                                   !.path = r.path,
                                   !.ret = IF tail THEN t.ret
                                           ELSE IF r.ret = "tail_call" THEN "TC_ACT_OK"
                                           ELSE r.ret,
                                   !.tstamp_throttle = r.tstamp,
                                   !.tstamp = out,
                                   !.write_failed = r.write_failed,
                                   !.delay_ns = r.delay_ns,
                                   !.prev_dep = bpf_map_lookup_elem(lastDep, key),
                                   !.trace = (IF r.path = "truncated" THEN <<>> ELSE <<"Loss">>)
                                             \o (IF throttled THEN <<"Throttle">> ELSE <<>>)
                                             \o (IF tail THEN <<"DelayJitter">> ELSE <<>>),
                                   !.slot0 = slot0,
                                   !.rand = rand,
                                   !.dj_delay_ns = IF tail THEN t.delay_ns ELSE 0,
                                   !.dj_jitter_ns = IF tail THEN t.jitter_ns ELSE 0,
                                   !.prev_out = bpf_map_lookup_elem(lastOut, key)]
           /\ lastDep' = IF rated /\ r.ret = "tail_call"
                         THEN [k \in DOMAIN lastDep \cup {key} |->
                                  IF k = key THEN Departure(r.tstamp, now) ELSE lastDep[k]]
                         ELSE lastDep
           /\ lastOut' = IF track /\ r.ret = "tail_call"
                         THEN [k \in DOMAIN lastOut \cup {key} |->
                                  IF k = key
                                  THEN [out |-> Departure(out, now), len |-> skb.len,
                                        fresh |-> skb.tstamp = 0 /\ flow_map = <<>>,
                                        slot0 |-> slot0]
                                  ELSE lastOut[k]]
                         ELSE lastOut
           /\ UNCHANGED <<now, MAC_HANDLE_EMU, cpu>>
           /\ UNCHANGED xdpVars

RunLossBps == LossBpsStep(Skbs(now), Rands, FALSE, TRUE)

\* the program has returned: the kernel takes its verdict and the packet leaves the hook
TcReturn ==
    /\ run # NoRun
    /\ run' = NoRun
    /\ UNCHANGED <<now, MAC_HANDLE_EMU, flow_map, lastDep, lastOut, npkts, cpu>>
    /\ UNCHANGED xdpVars

Next ==
    \/ Tick
    \/ TcReturn
    \/ RunDelayJitter
    \/ RunLossBps

Spec == Init /\ [][Next]_vars

(***************************************************************************)
(* One flow, its entry drawn from HandleSet                                *)
(***************************************************************************)
FnMaxNow == 26000000       \* the clock of SpecFn stops advancing here

\* entries of the flow (3, AA:BB:CC:DD:EE:FF): the entry of the concrete
\* scenario; a delay whose 32-bit product with 10000 wraps, with a loss rate
\* of 50 %; loss rates of 100 % and of more than 100 %
HandleSet ==
    { handle_emu(1000000, 100, 0, 0),
      handle_emu(1000000, 500000, 5000, 0),
      handle_emu(12000, 0, 10000, 50),
      handle_emu(1000000, 0, 12000, 0) }

FnKeys == {flow_key(3, MacA)}

\* draws on both sides of each loss rate of HandleSet
FnRands == {0, 4999, 5000, 9999, 1000000}

InitFn ==
    /\ now = StartNow
    /\ MAC_HANDLE_EMU \in {flow_key(3, MacA) :> h : h \in HandleSet}
    /\ flow_map = <<>>
    /\ run = NoRun
    /\ lastDep = <<>>
    /\ lastOut = <<>>
    /\ npkts = 0
    /\ cpu = NoCpu
    /\ mac_table = <<>>
    /\ tx_ports = {}
    /\ xdp = NoXdp

FnTick == TickTo(FnMaxNow)

FnDelayJitter == DelayJitterStep(SkbsOf(FnKeys, now), FnRands)

\* the packet delay_jitter has just stamped reaches a hook of delay_jitter again
FnRerunDelayJitter ==
    /\ run.hook = "delay_jitter" /\ run.pass = 1 /\ run.ret = "TC_ACT_OK"
    /\ \E rand \in JitterDraws(run.skb, MAC_HANDLE_EMU, FnRands) :
        LET r == delay_jitter([run.skb EXCEPT !.tstamp = run.tstamp], now, MAC_HANDLE_EMU, rand)
        IN run' = [run EXCEPT !.pass = 2, !.tstamp_once = run.tstamp,
                              !.ret = r.ret, !.tstamp = r.tstamp,
                              !.trace = <<"DelayJitter", "DelayJitter">>]
    /\ UNCHANGED <<now, MAC_HANDLE_EMU, flow_map, lastDep, lastOut, npkts, cpu>>
    /\ UNCHANGED xdpVars

FnLossBps == LossBpsStep(SkbsOf(FnKeys, now), FnRands, TRUE, TRUE)

NextFn ==
    \/ FnTick
    \/ TcReturn
    \/ FnDelayJitter
    \/ FnRerunDelayJitter
    \/ FnLossBps

SpecFn == InitFn /\ [][NextFn]_vars

\* the control plane writes an entry of the pinned map mac_table
MacTableUpdate ==
    \E m \in TableMacs, i \in Ifindexes :
        /\ xdp = NoXdp
        /\ mac_table' = [x \in DOMAIN mac_table \cup {m} |-> IF x = m THEN i ELSE mac_table[x]]
        /\ mac_table' # mac_table
        /\ UNCHANGED <<tx_ports, xdp>>
        /\ UNCHANGED tcVars

\* the control plane adds a device to, or removes one from, the pinned devmap tx_ports
TxPortsUpdate ==
    \E i \in Ifindexes :
        /\ xdp = NoXdp
        /\ tx_ports' = IF i \in tx_ports THEN tx_ports \ {i} ELSE tx_ports \cup {i}
        /\ UNCHANGED <<mac_table, xdp>>
        /\ UNCHANGED tcVars

\* a frame of ctxs reaches the XDP hook
XdpStep(ctxs) ==
    /\ xdp = NoXdp
    /\ \E ctx \in ctxs :
        LET r == xdp_l2_fwd_prog(ctx, mac_table, tx_ports)
        IN /\ xdp' = [ran |-> TRUE, ctx |-> ctx, action |-> r.action, targets |-> r.targets]
           /\ UNCHANGED <<mac_table, tx_ports>>
           /\ UNCHANGED tcVars

RunXdp == XdpStep(XdpCtxs)

\* the program has returned: the kernel carries out the XDP action
XdpReturn ==
    /\ xdp # NoXdp
    /\ xdp' = NoXdp
    /\ UNCHANGED <<mac_table, tx_ports>>
    /\ UNCHANGED tcVars

NextXdp ==
    \/ XdpReturn
    \/ MacTableUpdate
    \/ TxPortsUpdate
    \/ RunXdp

SpecXdp == Init /\ [][NextXdp]_vars

(***************************************************************************)
(* Truncated packets at the three hooks                                    *)
(***************************************************************************)
\* flow_map is empty, or holds the entry a first 1500-byte packet of the flow
\* (3, AA:BB:CC:DD:EE:FF) leaves at StartNow
TruncFlowMaps ==
    {<<>>, flow_key(3, MacA) :> (StartNow + throttle_delay_ns(1500, 1000000, 0))}

InitTrunc ==
    /\ now = StartNow
    /\ MAC_HANDLE_EMU = EmuTable
    /\ flow_map \in TruncFlowMaps
    /\ run = NoRun
    /\ lastDep = <<>>
    /\ lastOut = <<>>
    /\ npkts = 0
    /\ cpu = NoCpu
    /\ mac_table = <<>>
    /\ tx_ports = {}
    /\ xdp = NoXdp

\* SkbsOf with no key: the packets cut short
TruncDelayJitter == DelayJitterStep(SkbsOf({}, now), Rands)

TruncLossBps == LossBpsStep(SkbsOf({}, now), Rands, FALSE, TRUE)

TruncXdp == XdpStep({ctx \in XdpCtxs : ctx.truncated})

NextTrunc ==
    \/ Tick
    \/ TcReturn
    \/ TruncDelayJitter
    \/ TruncLossBps
    \/ XdpReturn
    \/ MacTableUpdate
    \/ TxPortsUpdate
    \/ TruncXdp

SpecTrunc == InitTrunc /\ [][NextTrunc]_vars

(***************************************************************************)
(* loss_bps on two CPUs                                                    *)
(***************************************************************************)
\* flow_map is empty, or holds the entry a first 1500-byte packet of the flow
\* (3, AA:BB:CC:DD:EE:FF) leaves at StartNow
SmpFlowMaps ==
    {<<>>, flow_key(3, MacA) :> (StartNow + throttle_delay_ns(1500, 1000000, 0))}

InitSmp ==
    /\ now = StartNow
    /\ MAC_HANDLE_EMU = EmuTable
    /\ flow_map \in SmpFlowMaps
    /\ run = NoRun
    /\ lastDep = <<>>
    /\ lastOut = <<>>
    /\ npkts = 0
    /\ cpu = NoCpu
    /\ mac_table = <<>>
    /\ tx_ports = {}
    /\ xdp = NoXdp

OtherCpu(c) == CHOOSE d \in CPUs : d # c

\* A packet reaches loss_bps on CPU c, and the program runs up to the
\* computation of next_tstamp in throttle_flow (lines 163-217, 114-133).  The
\* packets are those of flows paced at a rate > 0 without loss: the loss check
\* makes no draw and the program reaches throttle_flow.  base keeps flow_map as
\* the first of the two CPUs found it.
SmpRead(c) ==
    /\ cpu[c].pc = "idle"
    /\ \E skb \in Skbs(now) :
        LET key == flow_key(skb.ifindex, skb.h_source)
            val_struct == bpf_map_lookup_elem(MAC_HANDLE_EMU, key)
        IN /\ parse_ethhdr(skb) = "TC_ACT_OK"
           /\ Len(val_struct) > 0
           /\ val_struct[1].loss_rate = 0
           /\ val_struct[1].throttle_rate_bps > 0
           /\ InRange(skb, now, MAC_HANDLE_EMU, flow_map, 0)
           /\ cpu' = [cpu EXCEPT ![c] =
                        [IdleCpu EXCEPT
                           !.pc = "read", !.skb = skb,
                           !.locals = <<throttle_flow_read(skb.tstamp, skb.len, key,
                                                           val_struct[1].throttle_rate_bps,
                                                           now, flow_map, 0)>>,
                           !.base = IF cpu[OtherCpu(c)].pc = "idle"
                                    THEN <<flow_map>>
                                    ELSE cpu[OtherCpu(c)].base]]
    /\ UNCHANGED <<now, MAC_HANDLE_EMU, flow_map, run, lastDep, lastOut, npkts>>
    /\ UNCHANGED xdpVars

\* loss_bps on CPU c runs throttle_flow from the test of next_tstamp to its
\* return (lines 136-159); slot 0 of progs is empty
SmpWrite(c) ==
    /\ cpu[c].pc = "read"
    /\ LET skb == cpu[c].skb
           r == throttle_flow_write(cpu[c].locals[1], skb.tstamp,
                                    flow_key(skb.ifindex, skb.h_source), flow_map)
       IN /\ flow_map' = r.flow_map
          /\ cpu' = [cpu EXCEPT ![c].pc = "done",
                                ![c].ret = IF r.ret = "tail_call" THEN "TC_ACT_OK" ELSE r.ret,
                                ![c].path = r.path,
                                ![c].tstamp = r.tstamp]
    /\ UNCHANGED <<now, MAC_HANDLE_EMU, run, lastDep, lastOut, npkts>>
    /\ UNCHANGED xdpVars

NextSmp ==
    \/ Tick
    \/ \E c \in CPUs : SmpRead(c)
    \/ \E c \in CPUs : SmpWrite(c)

SpecSmp == InitSmp /\ [][NextSmp]_vars

(***************************************************************************)
(* One flow whose packets never stop arriving                              *)
(***************************************************************************)
\* rates at which a 1500-byte packet takes 2 s, 24 ms and 12 ms
LiveRates == {6000, 500000, 1000000}

\* the packets of the flow: 1500 bytes, unstamped
LiveSkbs ==
    {[ifindex |-> 3, h_source |-> MacA, len |-> 1500, tstamp |-> 0, truncated |-> FALSE]}

InitLive ==
    /\ now = StartNow
    /\ MAC_HANDLE_EMU \in {flow_key(3, MacA) :> handle_emu(r, 0, 0, 0) : r \in LiveRates}
    /\ flow_map = <<>>
    /\ run = NoRun
    /\ lastDep = <<>>
    /\ lastOut = <<>>
    /\ npkts = 0
    /\ cpu = NoCpu
    /\ mac_table = <<>>
    /\ tx_ports = {}
    /\ xdp = NoXdp

\* the next packet of the flow reaches loss_bps, however many came before
LiveArrival == LossBpsStep(LiveSkbs, Rands, FALSE, FALSE)

NextLive ==
    \/ Tick
    \/ TcReturn
    \/ LiveArrival

\* packets keep arriving, every run of the program returns, and the clock
\* advances as far as MaxNow
SpecLive ==
    /\ InitLive
    /\ [][NextLive]_vars
    /\ WF_vars(LiveArrival)
    /\ WF_vars(TcReturn)
    /\ WF_vars(Tick)

(***************************************************************************)
(* Properties                                                              *)
(***************************************************************************)
\* the run of the last step was loss_bps and reached throttle_flow
ThrottleRan == run.hook = "loss_bps" /\ run.path \in {"rebase", "horizon", "update_failed", "paced"}

\* throttle_flow passed the packet on
ThrottlePassed == run.hook = "loss_bps" /\ run.path \in {"rebase", "paced"}

RunKey == flow_key(run.skb.ifindex, run.skb.h_source)
RunRate == run.handle[1].throttle_rate_bps

\* len * 8 * 10^9 / rate in integer arithmetic, rate > 0
TransmissionNs(len, rate) ==
    ((len * 8) * (NS_PER_SEC \div rate)) + (((len * 8) * (NS_PER_SEC % rate)) \div rate)

\* C1: at a rate R > 0, a packet that throttle_flow passes leaves with a
\* scheduled-departure time at least its own transmission duration
\* len*8*10^9/R after the departure time of the flow's previous passed packet.
C1_ThrottleSpacing ==
    (ThrottlePassed /\ RunRate > 0 /\ Len(run.prev_dep) > 0)
        => Departure(run.tstamp_throttle, run.now) - run.prev_dep[1]
              >= TransmissionNs(run.skb.len, RunRate)

\* a second packet of a paced flow was pushed into the future behind the first
C1_Witness ==
    /\ ThrottlePassed /\ RunRate > 0 /\ Len(run.prev_dep) > 0
    /\ run.path = "paced"
    /\ run.tstamp_throttle = run.prev_dep[1] + TransmissionNs(run.skb.len, RunRate)

\* C2: with a backlog and a candidate departure 2 s or more after now, the
\* packet is dropped and flow_map is left as it was; every timestamp
\* throttle_flow writes onto a packet is below now + 2 s.
C2_HorizonDrop ==
    ThrottleRan =>
        LET base == Departure(run.skb.tstamp, run.now)
            cand == (IF RunKey \in DOMAIN run.flow_map_before
                     THEN run.flow_map_before[RunKey] ELSE base) + run.delay_ns
        IN /\ (cand > base /\ cand - run.now >= TIME_HORIZON_NS)
                => (run.ret = "TC_ACT_SHOT" /\ run.path = "horizon"
                    /\ flow_map = run.flow_map_before)
           /\ (run.path = "paced" \/ run.tstamp_throttle # run.skb.tstamp)
                => run.tstamp_throttle < run.now + TIME_HORIZON_NS

\* a packet of a flow that has an entry was dropped at exactly the horizon
C2_Witness ==
    /\ ThrottleRan /\ run.path = "horizon" /\ run.ret = "TC_ACT_SHOT"
    /\ RunKey \in DOMAIN run.flow_map_before
    /\ run.flow_map_before[RunKey] + run.delay_ns - run.now = TIME_HORIZON_NS

\* C3: delay_jitter leaves a timestamp with tstamp - now in
\* [D*10000 - J*10000, D*10000 + J*10000], whatever timestamp came in.
C3_DelayJitterRange ==
    (run.hook = "delay_jitter" /\ Len(run.handle) > 0)
        => LET D == run.handle[1].delay * NS_PER_0_0_1_MS
               J == run.handle[1].jitter * NS_PER_0_0_1_MS
           IN /\ run.tstamp - run.now >= D - J
              /\ run.tstamp - run.now <= D + J

\* C4: at throttle_rate_bps = 0 a packet that survives the loss check is not
\* dropped, keeps its timestamp, and flow_map is left as it was.
C4_RateZeroDisabled ==
    (run.hook = "loss_bps" /\ Len(run.handle) > 0 /\ ~run.skb.truncated
       /\ run.path # "loss" /\ RunRate = 0)
        => /\ run.ret # "TC_ACT_SHOT"
           /\ run.tstamp_throttle = run.skb.tstamp
           /\ flow_map = run.flow_map_before

\* C5: a packet whose flow_map write failed is dropped.
C5_WriteFailureDrops ==
    (run.hook = "loss_bps" /\ run.write_failed) => run.ret = "TC_ACT_SHOT"

\* C9: a well-formed packet whose key has no entry in MAC_HANDLE_EMU leaves
\* delay_jitter and loss_bps with TC_ACT_OK, its timestamp and flow_map as they were.
C9_AbsentFlowNoOp ==
    (run.hook \in {"delay_jitter", "loss_bps"} /\ ~run.skb.truncated
       /\ RunKey \notin DOMAIN MAC_HANDLE_EMU)
        => /\ run.ret = "TC_ACT_OK"
           /\ run.tstamp = run.skb.tstamp
           /\ run.tstamp_throttle = run.skb.tstamp
           /\ flow_map = run.flow_map_before
           /\ run.trace \in {<<"DelayJitter">>, <<"Loss">>}

\* loss_bps ran on a stamped packet whose key differs from a configured key in
\* the interface index alone, while flow_map holds an entry
C9_Witness ==
    /\ run.hook = "loss_bps" /\ ~run.skb.truncated
    /\ RunKey = flow_key(4, MacA)
    /\ flow_key(3, MacA) \in DOMAIN MAC_HANDLE_EMU
    /\ run.skb.tstamp > run.now
    /\ run.ret = "TC_ACT_OK"
    /\ flow_map # <<>>

StageOrder == <<"DelayJitter", "Loss", "Throttle", "Forwarding">>

IsPrefix(s, t) == Len(s) <= Len(t) /\ \A i \in 1..Len(s) : s[i] = t[i]

\* C10: the stages a well-formed packet passes are DelayJitter, Loss, Throttle,
\* Forwarding in this order, and only a drop ends the sequence early.
C10_FixedStageOrder ==
    (run.hook # "none" /\ ~run.skb.truncated)
        => /\ IsPrefix(run.trace, StageOrder)
           /\ (run.ret # "TC_ACT_SHOT" => run.trace = StageOrder)

XdpUnicast == xdp.ran /\ ~xdp.ctx.truncated /\ xdp.ctx.h_dest[1] % 2 = 0

XdpMulticast == xdp.ran /\ ~xdp.ctx.truncated /\ xdp.ctx.h_dest[1] % 2 = 1

\* C6 as stated: a well-formed unicast frame whose destination is in mac_table
\* with egress e is redirected to exactly e.
C6_KnownUnicastRedirect ==
    (XdpUnicast /\ xdp.ctx.h_dest \in DOMAIN mac_table)
        => (xdp.action = "XDP_REDIRECT" /\ xdp.targets = {mac_table[xdp.ctx.h_dest]})

\* C6 amended: a well-formed unicast frame whose destination is in mac_table
\* with an egress e that is a key of tx_ports is redirected to exactly e.
C6_KnownUnicastRedirectInPorts ==
    (XdpUnicast /\ xdp.ctx.h_dest \in DOMAIN mac_table
       /\ mac_table[xdp.ctx.h_dest] \in tx_ports)
        => (xdp.action = "XDP_REDIRECT" /\ xdp.targets = {mac_table[xdp.ctx.h_dest]})

\* a known unicast frame was redirected to an egress other than its ingress,
\* while tx_ports holds the ingress and a third interface as well
C6_Witness ==
    /\ XdpUnicast /\ xdp.ctx.h_dest \in DOMAIN mac_table
    /\ mac_table[xdp.ctx.h_dest] \in tx_ports
    /\ mac_table[xdp.ctx.h_dest] # xdp.ctx.ingress_ifindex
    /\ xdp.ctx.ingress_ifindex \in tx_ports
    /\ Cardinality(tx_ports) = 3
    /\ xdp.action = "XDP_REDIRECT"

\* C7: a well-formed frame with the multicast bit set goes to every interface
\* of tx_ports but the ingress, whatever mac_table holds.
C7_MulticastFlood ==
    XdpMulticast
        => (xdp.action = "XDP_REDIRECT" /\ xdp.targets = tx_ports \ {xdp.ctx.ingress_ifindex})

\* a broadcast frame whose address has a mac_table entry was flooded to two
\* interfaces, the ingress being in tx_ports
C7_Witness ==
    /\ XdpMulticast
    /\ xdp.ctx.h_dest \in DOMAIN mac_table
    /\ xdp.ctx.ingress_ifindex \in tx_ports
    /\ Cardinality(xdp.targets) = 2

\* C8: a well-formed unicast frame whose destination is not in mac_table is
\* passed; it is not dropped, redirected or flooded.
C8_UnknownUnicastPass ==
    (XdpUnicast /\ xdp.ctx.h_dest \notin DOMAIN mac_table)
        => (xdp.action = "XDP_PASS" /\ xdp.targets = {})

\* an unknown unicast frame was passed while mac_table and tx_ports are not empty
C8_Witness ==
    /\ XdpUnicast /\ xdp.ctx.h_dest \notin DOMAIN mac_table
    /\ mac_table # <<>> /\ tx_ports # {}
    /\ xdp.action = "XDP_PASS"

\* C20 as stated: whatever mac_table and tx_ports hold, a frame with a complete
\* Ethernet header is redirected, flooded or passed, never dropped or aborted.
C20_NeverDropOrAbort ==
    (xdp.ran /\ ~xdp.ctx.truncated) => xdp.action \in {"XDP_REDIRECT", "XDP_PASS"}

\* C20 amended: a frame with a complete Ethernet header is redirected, flooded
\* or passed, never dropped or aborted, whatever mac_table and tx_ports hold
\* (an egress equal to the ingress included), provided the egress of the
\* frame's mac_table entry, if it has one, is a key of tx_ports.
C20_NoLossWhenEgressInPorts ==
    (xdp.ran /\ ~xdp.ctx.truncated
       /\ (XdpUnicast /\ xdp.ctx.h_dest \in DOMAIN mac_table
             => mac_table[xdp.ctx.h_dest] \in tx_ports))
        => xdp.action \in {"XDP_REDIRECT", "XDP_PASS"}

\* a known unicast frame whose egress is its own ingress interface was
\* redirected back to it
C20_Witness ==
    /\ XdpUnicast /\ xdp.ctx.h_dest \in DOMAIN mac_table
    /\ mac_table[xdp.ctx.h_dest] = xdp.ctx.ingress_ifindex
    /\ xdp.ctx.ingress_ifindex \in tx_ports
    /\ xdp.action = "XDP_REDIRECT" /\ xdp.targets = {xdp.ctx.ingress_ifindex}

\* the reference algorithm of the throttle stage: the entry and the packet
\* timestamp it prescribes; decided is FALSE where it prescribes nothing
\* (a candidate 2 s or more after now)
ReferenceThrottle(len, ts, nowv, entry, rate) ==
    LET duration == TransmissionNs(len, rate)
        base == IF ts > nowv THEN ts ELSE nowv
        candidate == (IF Len(entry) > 0 THEN entry[1] ELSE base) + duration
    IN IF candidate <= base
       THEN [decided |-> TRUE, entry |-> base + duration, tstamp |-> ts]
       ELSE IF candidate - nowv < 2 * NS_PER_SEC
       THEN [decided |-> TRUE, entry |-> candidate, tstamp |-> candidate]
       ELSE [decided |-> FALSE, entry |-> 0, tstamp |-> 0]

\* C16: at a rate R > 0 and with the flow_map write succeeding, throttle_flow
\* passes the packet on with the entry and the timestamp of the reference
\* algorithm: without backlog the entry becomes base + duration and the
\* timestamp stays as it came; with a backlog of less than 2 s both become
\* the candidate.  No other entry of flow_map changes.
C16_ReferenceOutcome ==
    (ThrottleRan /\ RunRate > 0 /\ ~run.write_failed)
        => LET ref == ReferenceThrottle(run.skb.len, run.skb.tstamp, run.now,
                                        bpf_map_lookup_elem(run.flow_map_before, RunKey),
                                        RunRate)
           IN ref.decided
                => /\ ThrottlePassed
                   /\ RunKey \in DOMAIN flow_map
                   /\ flow_map[RunKey] = ref.entry
                   /\ run.tstamp_throttle = ref.tstamp
                   /\ \A k \in DOMAIN run.flow_map_before \ {RunKey} :
                         k \in DOMAIN flow_map /\ flow_map[k] = run.flow_map_before[k]

\* a packet met an entry with idle credit: entry + duration lies before the
\* base, and the entry was set to base + duration
C16_Witness ==
    /\ ThrottleRan /\ RunRate > 0 /\ ~run.write_failed
    /\ RunKey \in DOMAIN run.flow_map_before
    /\ run.flow_map_before[RunKey] + run.delay_ns < Departure(run.skb.tstamp, run.now)
    /\ run.skb.tstamp > run.now
    /\ flow_map[RunKey] = run.skb.tstamp + TransmissionNs(run.skb.len, RunRate)
    /\ run.tstamp_throttle = run.skb.tstamp

\* C11: for a flow with jitter 0, the timestamp after delay_jitter has run a
\* second time on the packet it stamped equals the timestamp after the first run.
C11_NoDoubleApply ==
    (run.hook = "delay_jitter" /\ run.pass = 2 /\ Len(run.handle) > 0
       /\ run.handle[1].jitter = 0)
        => run.tstamp = run.tstamp_once

\* C14: with loss rate L, loss_bps drops the packet at the loss check exactly
\* when the draw r = rand % 10000 is below L: never at L = 0, always at
\* L >= 10000; the dropped packet keeps its timestamp, flow_map is left as it
\* was, and neither throttle_flow nor a tail-called program ran.
C14_LossIffDrawBelowRate ==
    (run.hook = "loss_bps" /\ Len(run.handle) > 0 /\ ~run.skb.truncated)
        => LET L == run.handle[1].loss_rate
               r == run.rand % 10000
           IN /\ (run.path = "loss") <=> (r < L)
              /\ L = 0 => run.path # "loss"
              /\ L >= 10000 => run.path = "loss"
              /\ run.path = "loss"
                    => /\ run.ret = "TC_ACT_SHOT"
                       /\ run.tstamp = run.skb.tstamp
                       /\ flow_map = run.flow_map_before
                       /\ run.trace = <<"Loss">>

\* at a loss rate of 5000 a stamped packet was dropped on the draw 4999, while
\* flow_map holds an entry of its flow
C14_Witness ==
    /\ run.hook = "loss_bps" /\ Len(run.handle) > 0 /\ ~run.skb.truncated
    /\ run.handle[1].loss_rate = 5000 /\ run.rand = 4999
    /\ run.path = "loss"
    /\ run.skb.tstamp > run.now
    /\ RunKey \in DOMAIN flow_map

\* C15: the nanosecond values delay_jitter uses are delay * 10000 and
\* jitter * 10000, not these products modulo 2^32.  (The products are compared
\* through their quotient by 10000.)
C15_NoWrap ==
    (run.hook = "delay_jitter" /\ Len(run.handle) > 0 /\ ~run.skb.truncated)
        => /\ run.dj_delay_ns % NS_PER_0_0_1_MS = 0
           /\ run.dj_delay_ns \div NS_PER_0_0_1_MS = run.handle[1].delay
           /\ run.dj_jitter_ns % NS_PER_0_0_1_MS = 0
           /\ run.dj_jitter_ns \div NS_PER_0_0_1_MS = run.handle[1].jitter

\* the entry of the concrete scenario: 1 Mbit/s, 1 ms delay, no loss, no jitter
ScenarioHandle == handle_emu(1000000, 100, 0, 0)

\* loss_bps ran on a 1500-byte packet of the flow (3, AA:BB:CC:DD:EE:FF)
\* configured with ScenarioHandle
ScenarioRun ==
    /\ run.hook = "loss_bps" /\ ~run.skb.truncated
    /\ RunKey = flow_key(3, MacA)
    /\ run.handle = <<ScenarioHandle>>
    /\ run.skb.len = 1500

\* the packet before it was the scenario's first packet: 1500 bytes, unstamped,
\* met by an empty flow_map; slot 0 of progs is as it was then
AfterFirst ==
    /\ Len(run.prev_out) > 0
    /\ run.prev_out[1].len = 1500
    /\ run.prev_out[1].fresh
    /\ run.prev_out[1].slot0 = run.slot0

\* C12: in the concrete scenario the first packet, unstamped and met by an
\* empty flow_map, is not dropped and leaves scheduled at now + 1,000,000 ns
\* or later; the next packet of the flow, arriving at the same or a later
\* time, leaves scheduled 12,000,000 ns or more after the first, unless it is
\* dropped.  (A timestamp before now, 0 included, schedules the packet at now.)
C12_Scenario ==
    /\ (ScenarioRun /\ run.skb.tstamp = 0 /\ run.flow_map_before = <<>>)
          => /\ run.ret # "TC_ACT_SHOT"
             /\ Departure(run.tstamp, run.now) >= run.now + 1000000
    /\ (ScenarioRun /\ AfterFirst /\ run.ret # "TC_ACT_SHOT")
          => Departure(run.tstamp, run.now) - run.prev_out[1].out >= 12000000

\* the scenario with a second packet that arrives unstamped or stamped for the
\* future: the spacing of 12,000,000 ns holds
ScenarioFreshSpacing ==
    (ScenarioRun /\ AfterFirst /\ run.ret # "TC_ACT_SHOT"
       /\ (run.skb.tstamp = 0 \/ run.skb.tstamp > run.now))
        => Departure(run.tstamp, run.now) - run.prev_out[1].out >= 12000000

\* a step in which a program took a packet cut short of an Ethernet header
TruncatedStep ==
    \/ run = NoRun /\ run' # NoRun /\ run'.skb.truncated
    \/ xdp = NoXdp /\ xdp' # NoXdp /\ xdp'.ctx.truncated

\* C17: a packet cut short of an Ethernet header is dropped by delay_jitter,
\* by loss_bps and by xdp_l2_fwd_prog, whatever the tables hold: the programs
\* return before their first lookup, the timestamp stays as it came, and the
\* step leaves MAC_HANDLE_EMU, flow_map, mac_table and tx_ports as they were.
C17_TruncatedDropped ==
    /\ [](/\ (run.hook \in {"delay_jitter", "loss_bps"} /\ run.skb.truncated)
               => /\ run.ret = "TC_ACT_SHOT"
                  /\ run.tstamp = run.skb.tstamp
                  /\ run.hook = "loss_bps" => (run.path = "truncated" /\ run.trace = <<>>)
                  /\ run.hook = "delay_jitter" => (run.dj_delay_ns = 0 /\ run.dj_jitter_ns = 0)
          /\ (xdp.ran /\ xdp.ctx.truncated)
               => (xdp.action = "XDP_DROP" /\ xdp.targets = {}))
    /\ [][TruncatedStep => UNCHANGED <<MAC_HANDLE_EMU, flow_map, mac_table, tx_ports>>]_vars

\* loss_bps dropped a stamped truncated packet while MAC_HANDLE_EMU and
\* flow_map hold an entry under its key, and xdp_l2_fwd_prog dropped a
\* truncated frame whose destination is in mac_table with an egress in tx_ports
C17_Witness ==
    /\ run.hook = "loss_bps" /\ run.skb.truncated
    /\ run.skb.tstamp > run.now
    /\ RunKey \in DOMAIN MAC_HANDLE_EMU /\ RunKey \in DOMAIN flow_map
    /\ run.ret = "TC_ACT_SHOT"
    /\ xdp.ran /\ xdp.ctx.truncated
    /\ xdp.ctx.h_dest \in DOMAIN mac_table
    /\ mac_table[xdp.ctx.h_dest] \in tx_ports
    /\ xdp.action = "XDP_DROP"

CpuKey(c) == flow_key(cpu[c].skb.ifindex, cpu[c].skb.h_source)

\* both CPUs have finished a packet of one flow
BothDoneSameFlow ==
    /\ \A c \in CPUs : cpu[c].pc = "done"
    /\ CpuKey(1) = CpuKey(2)

\* flow_map and the two packets as the two CPUs left them
SmpOutcome ==
    [flow_map |-> flow_map,
     tstamp |-> [c \in CPUs |-> cpu[c].tstamp],
     path |-> [c \in CPUs |-> cpu[c].path]]

\* flow_map and the two packets after throttle_flow has run on the packet of
\* CPU a and then, from its first to its last line, on the packet of CPU b,
\* each with the clock reading it had
SerialOutcome(a, b) ==
    LET key == CpuKey(a)
        rate == MAC_HANDLE_EMU[key].throttle_rate_bps
        ra == throttle_flow(cpu[a].skb.tstamp, cpu[a].skb.len, key, rate,
                            cpu[a].locals[1].now, cpu[a].base[1], 0)
        rb == throttle_flow(cpu[b].skb.tstamp, cpu[b].skb.len, key, rate,
                            cpu[b].locals[1].now, ra.flow_map, 0)
    IN [flow_map |-> rb.flow_map,
        tstamp |-> [c \in CPUs |-> IF c = a THEN ra.tstamp ELSE rb.tstamp],
        path |-> [c \in CPUs |-> IF c = a THEN ra.path ELSE rb.path]]

\* C13: when two CPUs have each run throttle_flow on a packet of one flow,
\* flow_map and the two timestamps are those of one of the two executions in
\* which the packets are handled one after the other; two packets that were
\* both pushed into the future do not carry the same timestamp.
C13_Serializable ==
    BothDoneSameFlow
        => /\ SmpOutcome \in {SerialOutcome(1, 2), SerialOutcome(2, 1)}
           /\ (cpu[1].path = "paced" /\ cpu[2].path = "paced")
                 => cpu[1].tstamp # cpu[2].tstamp

\* C18: every step leaves each entry of flow_map in place, with a value
\* greater than or equal to the one it had.
C18_PacingMonotone ==
    [][\A k \in DOMAIN flow_map :
          k \in DOMAIN flow_map' /\ flow_map'[k] >= flow_map[k]]_vars

\* C19: while packets of a flow with a rate > 0 and a fixed length keep
\* arriving and the clock advances, throttle_flow eventually passes one of them.
C19_EventuallyPassed == <>ThrottlePassed

====
